---- MODULE Spec2Model ----
(***************************************************************************)
(* A state-machine model of the tree-editor widget (src/src/index.ts).     *)
(*                                                                         *)
(* The document is modelled as a heap of node elements (dom), the node     *)
(* children of the tree's container element (container) and the children   *)
(* of the host elements (hostChildren).  A TreeNode view is a record       *)
(* [el, children]: the element it wraps and the list of child views that   *)
(* its closure variable `children` currently holds.  Views have identity   *)
(* in the program; the views the program can still reach form a forest     *)
(* (top), in which the tree's root view (rootAt) and one reference kept by *)
(* the caller (held) are positions.                                        *)
(***************************************************************************)
EXTENDS Integers, Sequences, FiniteSets, TLC

\* ------------------------------------------------------------------ bounds
\* Number of node elements add() may bring the heap to.
MaxNodes == 3
\* add() positions range over -1 .. MaxIndex, remove() indices likewise.
MaxIndex == 2
\* Number of nodes of the TreeData values given to createTree in SpecCreate.
MaxDataNodes == 3

\* Children in the list of the view the caller keeps in SpecRepair, and the
\* number of calls it then makes through the tree's own view of that node.
MaxKept == 3
MaxCalls == 3

\* The slots of the heap of node elements: three more than add() may fill, so
\* that the four nodes of the specification's scenario fit, and the root,
\* the kept node, its MaxKept children and one more node of SpecRepair.
Elem == 1..(MaxNodes + 3)
Hosts == {"host1", "host2"}

\* ------------------------------------------------------------------ labels
\* A label is a sequence of pieces of text; DQUOTE is the one character that
\* the markup of genTreeNodeHtml does not survive, every other piece is
\* text without markup-significant characters.
DQUOTE == "\""

\* The value the parser gives the attribute value="..." written at
\* index.ts:266: the text up to the first double quote.
RECURSIVE attrValue(_)
attrValue(s) ==
  IF s = <<>> \/ Head(s) = DQUOTE THEN <<>>
  ELSE <<Head(s)>> \o attrValue(Tail(s))

\* ---------------------------------------------------------------- TreeData
\* TreeData = string | [content, children].  A string is the record of type
\* "string" (it has no children), a pair the record of type "array".
Str(c) == [type |-> "string", content |-> c, children |-> <<>>]
Pair(c, cs) == [type |-> "array", content |-> c, children |-> cs]

\* A helper that makes a pair of every call.
tAlwaysPair(c, cs) == Pair(c, cs)

\* export const t = (content, ...children)
t(c, cs) == IF Len(cs) = 0 THEN Str(c) ELSE Pair(c, cs)

RECURSIVE NodeCount(_)
NodeCount(data) ==
  LET RECURSIVE Sum(_)
      Sum(s) == IF s = <<>> THEN 0 ELSE NodeCount(Head(s)) + Sum(Tail(s))
  IN 1 + Sum(data.children)

\* ---------------------------------------------------------------- elements
\* The three element children of span.content, in document order.
COLLAPSED_BULLET == 1
EXPANDED_BULLET == 2
TEXT_INPUT == 3
ContentChildren == {COLLAPSED_BULLET, EXPANDED_BULLET, TEXT_INPUT}

\* An element slot no node element occupies.
NoElement ==
  [used |-> FALSE, content |-> <<>>, elClass |-> {}, chClass |-> {},
   leaf |-> FALSE, kids |-> <<>>, onkeydown |-> FALSE,
   onclick |-> [b \in ContentChildren |-> FALSE]]

\* A fragment whose node element carries no "expanded" class.
genTreeNodeHtmlBare(content, children) ==
  [used |-> TRUE,
   content |-> IF content = <<>> THEN <<>> ELSE attrValue(content),
   elClass |-> {}, chClass |-> {"expanded"},
   leaf |-> FALSE, kids |-> children, onkeydown |-> FALSE,
   onclick |-> [b \in ContentChildren |-> FALSE]]

\* The element one genTreeNodeHtml fragment parses to: div.tree_node.expanded
\* with span.content (two bullets and the text input) and div.children.expanded.
genTreeNodeHtml(content, children) ==
  [used |-> TRUE,
   content |-> IF content = <<>> THEN <<>> ELSE attrValue(content),
   elClass |-> {"expanded"}, chClass |-> {"expanded"},
   leaf |-> FALSE, kids |-> children, onkeydown |-> FALSE,
   onclick |-> [b \in ContentChildren |-> FALSE]]

FreeElems(d) == {e \in Elem : ~d[e].used}
MinOf(S) == CHOOSE x \in S : \A y \in S : x <= y

\* compile(treeDataToHtml(params)(data)): the elements of data's fragment are
\* created in document order; the result is the heap and the fragment's root.
RECURSIVE treeDataToHtml(_, _)
RECURSIVE childrenToHtml(_, _)
treeDataToHtml(d, data) ==
  LET me == MinOf(FreeElems(d))
      d1 == [d EXCEPT ![me] = genTreeNodeHtml(data.content, <<>>)]
      sub == IF data.type = "string"
             THEN [dom |-> d1, els |-> <<>>]
             ELSE childrenToHtml(d1, data.children)
  IN [dom |-> [sub.dom EXCEPT ![me].kids = sub.els], el |-> me]
childrenToHtml(d, datas) ==
  IF datas = <<>> THEN [dom |-> d, els |-> <<>>]
  ELSE LET h == treeDataToHtml(d, Head(datas))
           r == childrenToHtml(h.dom, Tail(datas))
       IN [dom |-> r.dom, els |-> <<h.el>> \o r.els]

\* ------------------------------------------------------------------- views
\* createTreeNode(params, el) runs setChildren() once: a view for every
\* element child of el's children container, recursively, and the leaf mark
\* of el's expanded bullet set from the number of children found.
RECURSIVE createTreeNode(_, _)
RECURSIVE mapCreateTreeNode(_, _)
createTreeNode(d, el) ==
  LET m == mapCreateTreeNode(d, d[el].kids)
  IN [dom |-> [m.dom EXCEPT ![el].leaf = (Len(m.nodes) = 0)],
      node |-> [el |-> el, children |-> m.nodes]]
mapCreateTreeNode(d, els) ==
  IF els = <<>> THEN [dom |-> d, nodes |-> <<>>]
  ELSE LET h == createTreeNode(d, Head(els))
           r == mapCreateTreeNode(h.dom, Tail(els))
       IN [dom |-> r.dom, nodes |-> <<h.node>> \o r.nodes]

\* setChildren() of the view at el: the same scan, on an existing view.
setChildren(d, el) == createTreeNode(d, el)

\* get collapsed()
getCollapsed(d, el) == "collapsed" \in d[el].chClass

\* A setter whose else branch leaves the "collapsed" class on the children
\* container.
setCollapsedKeepsClass(d, el, c) ==
  IF c
  THEN [d EXCEPT ![el].chClass = (@ \cup {"collapsed"}) \ {"expanded"},
                 ![el].elClass = (@ \cup {"collapsed"}) \ {"expanded"}]
  ELSE [d EXCEPT ![el].chClass = @ \cup {"expanded"},
                 ![el].elClass = (@ \ {"collapsed"}) \cup {"expanded"}]

\* set collapsed(c)
setCollapsed(d, el, c) ==
  IF c
  THEN [d EXCEPT ![el].chClass = (@ \cup {"collapsed"}) \ {"expanded"},
                 ![el].elClass = (@ \cup {"collapsed"}) \ {"expanded"}]
  ELSE [d EXCEPT ![el].chClass = (@ \ {"collapsed"}) \cup {"expanded"},
                 ![el].elClass = (@ \ {"collapsed"}) \cup {"expanded"}]

\* treeNodeToTreeData(node)
RECURSIVE treeNodeToTreeData(_, _)
treeNodeToTreeData(d, node) ==
  IF Len(node.children) > 0
  THEN Pair(d[node.el].content,
            [i \in 1..Len(node.children) |-> treeNodeToTreeData(d, node.children[i])])
  ELSE Str(d[node.el].content)

\* --------------------------------------------------------------- listeners
\* An addListeners that only ever attaches: a node without children keeps
\* whatever handlers it has.
RECURSIVE addListenersOnly(_, _)
RECURSIVE addListenersOnlyAll(_, _)
addListenersOnly(d, root) ==
  LET on == Len(root.children) > 0
      d1 == IF on
            THEN [d EXCEPT ![root.el].onkeydown = TRUE,
                           ![root.el].onclick =
                              [b \in ContentChildren |->
                                 IF b \in {COLLAPSED_BULLET, EXPANDED_BULLET}
                                 THEN TRUE ELSE @[b]]]
            ELSE d
  IN addListenersOnlyAll(d1, root.children)
addListenersOnlyAll(d, nodes) ==
  IF nodes = <<>> THEN d
  ELSE addListenersOnlyAll(addListenersOnly(d, Head(nodes)), Tail(nodes))

\* addListeners(root): bullets = [...content.children].slice(0, 2)
RECURSIVE addListeners(_, _)
RECURSIVE addListenersAll(_, _)
addListeners(d, root) ==
  LET on == Len(root.children) > 0
      d1 == [d EXCEPT ![root.el].onkeydown = on,
                      ![root.el].onclick =
                         [b \in ContentChildren |->
                            IF b \in {COLLAPSED_BULLET, EXPANDED_BULLET} THEN on ELSE @[b]]]
  IN addListenersAll(d1, root.children)
addListenersAll(d, nodes) ==
  IF nodes = <<>> THEN d
  ELSE addListenersAll(addListeners(d, Head(nodes)), Tail(nodes))

\* removeListeners(root): bullets = [...content.children].slice(2)
RECURSIVE removeListeners(_, _)
RECURSIVE removeListenersAll(_, _)
removeListeners(d, root) ==
  LET d1 == [d EXCEPT ![root.el].onkeydown = FALSE,
                      ![root.el].onclick =
                         [b \in ContentChildren |->
                            IF b \in {TEXT_INPUT} THEN FALSE ELSE @[b]]]
  IN removeListenersAll(d1, root.children)
removeListenersAll(d, nodes) ==
  IF nodes = <<>> THEN d
  ELSE removeListenersAll(removeListeners(d, Head(nodes)), Tail(nodes))

\* ------------------------------------------------------------------- state
VARIABLES
  dom,           \* Elem -> the node element in that slot (NoElement: none)
  container,     \* node elements that are children of the tree's div.tree
  hostChildren,  \* host -> its children (the tree's container, "tree")
  mounted,       \* the closure variable `mounted` of tree()
  top,           \* the forest of views the program can still reach
  rootAt,        \* position in top of the closure variable `root` of tree()
  held,          \* position in top of a view the caller kept; <<>>: none
  data,          \* the argument createTree was called with
  out            \* <<result>> of the last getTreeData() call of SpecCreate

vars == <<dom, container, hostChildren, mounted, top, rootAt, held, data, out>>

\* ---------------------------------------------------------------- positions
\* A position <<k, i1, ..., in>> names top[k].children[i1]....children[in].
RECURSIVE SubView(_, _)
SubView(view, path) ==
  IF path = <<>> THEN view
  ELSE SubView(view.children[Head(path)], Tail(path))
ViewAt(f, pos) == SubView(f[pos[1]], Tail(pos))

RECURSIVE PutView(_, _, _)
PutView(view, path, new) ==
  IF path = <<>> THEN new
  ELSE [view EXCEPT !.children[Head(path)] = PutView(@, Tail(path), new)]
PutAt(f, pos, new) == [f EXCEPT ![pos[1]] = PutView(@, Tail(pos), new)]

RECURSIVE Paths(_)
Paths(view) ==
  {<<>>} \cup UNION {{<<i>> \o p : p \in Paths(view.children[i])} :
                       i \in 1..Len(view.children)}
Positions(f) == UNION {{<<k>> \o p : p \in Paths(f[k])} : k \in 1..Len(f)}

IsPrefix(a, b) == Len(a) <= Len(b) /\ SubSeq(b, 1, Len(a)) = a
Below(a, b) == SubSeq(b, Len(a) + 1, Len(b))

RECURSIVE ViewEls(_)
ViewEls(view) ==
  {view.el} \cup UNION {ViewEls(view.children[i]) : i \in 1..Len(view.children)}

\* The views reachable from `root` and from the caller's reference, as a
\* forest of one or two trees: a view does not reference its parent, so the
\* part of a tree above both references is unreachable.
Norm(f, r, h) ==
  IF h = <<>> THEN [top |-> <<ViewAt(f, r)>>, rootAt |-> <<1>>, held |-> <<>>]
  ELSE IF IsPrefix(r, h)
       THEN [top |-> <<ViewAt(f, r)>>, rootAt |-> <<1>>, held |-> <<1>> \o Below(r, h)]
  ELSE IF IsPrefix(h, r)
       THEN [top |-> <<ViewAt(f, h)>>, rootAt |-> <<1>> \o Below(h, r), held |-> <<1>>]
  ELSE [top |-> <<ViewAt(f, r), ViewAt(f, h)>>, rootAt |-> <<1>>, held |-> <<2>>]

\* The caller may have kept a reference to any view that existed before a
\* call.  One such reference is modelled, and only while it is a view that
\* tree.root no longer reaches (any other view is reached from tree.root):
\* the positions of f that are not at or below r.
Unreached(f, r) == {x \in Positions(f) : ~IsPrefix(r, x)}
\* What the caller keeps after a call: nothing, or (if it keeps references to
\* views across calls at all) one of the views tree.root no longer reaches.
Keeps(f, r, stale) == IF stale THEN Unreached(f, r) \cup {<<>>} ELSE {<<>>}

\* The view at pos gets a new children list (f1 is f with that view
\* replaced).  The views of its old list are no longer part of the tree at
\* pos: they become trees of their own, and a position below pos moves there.
Regenerated(f, f1, pos) == f1 \o ViewAt(f, pos).children
Moved(f1, pos, x) ==
  IF x # <<>> /\ IsPrefix(pos, x) /\ x # pos
  THEN <<Len(f1) + x[Len(pos) + 1]>> \o SubSeq(x, Len(pos) + 2, Len(x))
  ELSE x

\* ----------------------------------------------------------------- document
RECURSIVE Subtree(_, _)
Subtree(d, e) ==
  {e} \cup UNION {Subtree(d, d[e].kids[i]) : i \in 1..Len(d[e].kids)}

\* The node elements under the tree's container.
Live(d, c) == UNION {Subtree(d, c[i]) : i \in 1..Len(c)}

\* Elements the program can still reach: those under the container and those
\* under an element some reachable view wraps, in a fixed order of visit.
RECURSIVE DocOrder(_, _)
RECURSIVE DocOrderAll(_, _)
DocOrder(d, e) == <<e>> \o DocOrderAll(d, d[e].kids)
DocOrderAll(d, es) ==
  IF es = <<>> THEN <<>> ELSE DocOrder(d, Head(es)) \o DocOrderAll(d, Tail(es))
RECURSIVE ViewOrder(_, _)
RECURSIVE ViewOrderAll(_, _)
ViewOrder(d, view) == DocOrder(d, view.el) \o ViewOrderAll(d, view.children)
ViewOrderAll(d, views) ==
  IF views = <<>> THEN <<>>
  ELSE ViewOrder(d, Head(views)) \o ViewOrderAll(d, Tail(views))
RECURSIVE Dedup(_, _)
Dedup(es, seen) ==
  IF es = <<>> THEN <<>>
  ELSE IF Head(es) \in seen THEN Dedup(Tail(es), seen)
  ELSE <<Head(es)>> \o Dedup(Tail(es), seen \cup {Head(es)})
Reachable(d, c, f) == Dedup(DocOrderAll(d, c) \o ViewOrderAll(d, f), {})

RECURSIVE RenameView(_, _)
RenameView(view, id) ==
  [el |-> id[view.el],
   children |-> [i \in 1..Len(view.children) |-> RenameView(view.children[i], id)]]

\* Garbage collection.  Every element the program cannot reach leaves the
\* heap, and the elements that stay are moved to the first slots, in the
\* order of Reachable: which slot an element occupies has no meaning to the
\* program.
Collect(d, c, f) ==
  LET order == Reachable(d, c, f)
      id == [e \in {order[i] : i \in 1..Len(order)} |->
               CHOOSE i \in 1..Len(order) : order[i] = e]
      ren(es) == [i \in 1..Len(es) |-> id[es[i]]]
  IN [dom |-> [i \in Elem |->
                 IF i <= Len(order)
                 THEN [d[order[i]] EXCEPT !.kids = ren(@)]
                 ELSE NoElement],
      container |-> ren(c),
      top |-> [k \in 1..Len(f) |-> RenameView(f[k], id)]]

\* The state a call leaves: the views reachable from the root view r and the
\* kept reference h, and the elements reachable from them and the container.
Settle(d, c, f, r, h) ==
  LET n == Norm(f, r, h)
      g == Collect(d, c, n.top)
  IN [dom |-> g.dom, container |-> g.container, top |-> g.top,
      rootAt |-> n.rootAt, held |-> n.held]

Without(s, e) == SelectSeq(s, LAMBDA x : x # e)
RemoveAt(s, i) == SubSeq(s, 1, i - 1) \o SubSeq(s, i + 1, Len(s))
InsertAt(s, i, e) == SubSeq(s, 1, i - 1) \o <<e>> \o SubSeq(s, i, Len(s))

\* Element.remove() on a node element: it leaves whichever parent holds it.
\* s is the document [dom, container].
ElRemove(s, e) ==
  [s EXCEPT !.dom = [x \in Elem |-> [@[x] EXCEPT !.kids = Without(@, e)]],
            !.container = Without(@, e)]

\* parent.append(e) on a children container: e moves to the end of parent.
ElAppend(s, parent, e) ==
  LET s1 == ElRemove(s, e)
  IN [s1 EXCEPT !.dom[parent].kids = Append(@, e)]

\* An add that inserts the element and leaves the view's children list as it
\* was (no setChildren).
addWithoutSetChildren(d, node, childData, index) ==
  LET c == treeDataToHtml(d, childData)
      el == node.el
      d1 == IF index > -1 /\ index < Len(c.dom[el].kids)
            THEN [c.dom EXCEPT ![el].kids = InsertAt(@, index + 1, c.el)]
            ELSE [c.dom EXCEPT ![el].kids = Append(@, c.el)]
  IN [dom |-> addListeners(d1, node), node |-> node]

\* An add that expands the node it adds to.
addExpands(d, node, childData, index) ==
  LET c == treeDataToHtml(d, childData)
      el == node.el
      d1 == IF index > -1 /\ index < Len(c.dom[el].kids)
            THEN [c.dom EXCEPT ![el].kids = InsertAt(@, index + 1, c.el)]
            ELSE [c.dom EXCEPT ![el].kids = Append(@, c.el)]
      sc == setChildren(d1, el)
  IN [dom |-> setCollapsed(addListeners(sc.dom, sc.node), el, FALSE), node |-> sc.node]

\* A remove that takes the last child whatever the index.
removeLast(d, node, index) ==
  LET el == node.el
      n == Len(d[el].kids)
  IN IF index < 0 \/ index >= n
     THEN [dom |-> d, node |-> node, result |-> "ignored"]
     ELSE LET d1 == [d EXCEPT ![el].kids = RemoveAt(@, n)]
          IN IF n > Len(node.children)
             THEN [dom |-> d1, node |-> node, result |-> "threw"]
             ELSE LET d2 == removeListeners(d1, node.children[n])
                      sc == setChildren(d2, el)
                  IN [dom |-> addListeners(sc.dom, sc.node), node |-> sc.node,
                      result |-> "removed"]

\* A remove without the index < 0 test, a negative index counting from the
\* end of the list.
removeFromEnd(d, node, index) ==
  LET el == node.el
      n == Len(d[el].kids)
      k == IF index < 0 THEN n + index + 1 ELSE index + 1
  IN IF k < 1 \/ k > n
     THEN [dom |-> d, node |-> node, result |-> "ignored"]
     ELSE LET d1 == [d EXCEPT ![el].kids = RemoveAt(@, k)]
          IN IF k > Len(node.children)
             THEN [dom |-> d1, node |-> node, result |-> "threw"]
             ELSE LET d2 == removeListeners(d1, node.children[k])
                      sc == setChildren(d2, el)
                  IN [dom |-> addListeners(sc.dom, sc.node), node |-> sc.node,
                      result |-> "removed"]

\* --------------------------------------------------------- node operations
\* TreeNode.add(childData, index = -1); the result is the heap and the view
\* with its new children list.
add(d, node, childData, index) ==
  LET c == treeDataToHtml(d, childData)
      el == node.el
      d1 == IF index > -1 /\ index < Len(c.dom[el].kids)
            THEN [c.dom EXCEPT ![el].kids = InsertAt(@, index + 1, c.el)]
            ELSE [c.dom EXCEPT ![el].kids = Append(@, c.el)]
      sc == setChildren(d1, el)
  IN [dom |-> addListeners(sc.dom, sc.node), node |-> sc.node]

\* TreeNode.remove(index).  children[index] is undefined when the view's list
\* is shorter than the container's: removeListeners(undefined) then throws a
\* TypeError, after removeChild and before setChildren.
remove(d, node, index) ==
  LET el == node.el IN
  IF index < 0 \/ index >= Len(d[el].kids)
  THEN [dom |-> d, node |-> node, result |-> "ignored"]
  ELSE LET d1 == [d EXCEPT ![el].kids = RemoveAt(@, index + 1)]
       IN IF index + 1 > Len(node.children)
          THEN [dom |-> d1, node |-> node, result |-> "threw"]
          ELSE LET d2 == removeListeners(d1, node.children[index + 1])
                   sc == setChildren(d2, el)
               IN [dom |-> addListeners(sc.dom, sc.node), node |-> sc.node,
                   result |-> "removed"]

\* ---------------------------------------------------------------- appendAll
\* for (const childElement of parent.children) childElement.remove()
\* parent.children is a live collection: the iterator's index advances while
\* the collection shrinks.
RECURSIVE removeLoop(_, _)
removeLoop(kids, i) ==
  IF i >= Len(kids) THEN kids
  ELSE removeLoop(RemoveAt(kids, i + 1), i + 1)

\* for (let i = 0; i < children.length; i++) parent.append(children[i]._el)
RECURSIVE appendLoop(_, _, _)
appendLoop(s, parent, children) ==
  IF children = <<>> THEN s
  ELSE appendLoop(ElAppend(s, parent, Head(children).el), parent, Tail(children))

RECURSIVE appendAll(_, _)
RECURSIVE appendAllEach(_, _)
appendAll(s, node) ==
  IF Len(node.children) = 0 THEN s
  ELSE LET parent == node.el
           s1 == IF Len(s.dom[parent].kids) < Len(node.children)
                 THEN appendLoop(
                        [s EXCEPT !.dom[parent].kids = removeLoop(@, 0)],
                        parent, node.children)
                 ELSE s
       IN appendAllEach(s1, node.children)
appendAllEach(s, nodes) ==
  IF nodes = <<>> THEN s
  ELSE appendAllEach(appendAll(s, Head(nodes)), Tail(nodes))

\* ---------------------------------------------------------- tree operations
\* A setRoot that leaves the old root's element where it is.
setRootKeepsOld(s, root, newRoot) ==
  LET s1 == [s EXCEPT !.dom = removeListeners(@, root)]
      s3 == [ElRemove(s1, newRoot.el) EXCEPT !.container = Append(@, newRoot.el)]
      s4 == appendAll(s3, newRoot)
  IN [s4 EXCEPT !.dom = addListeners(@, newRoot)]

\* Tree.setRoot(newRoot), on the document s = [dom, container].
setRoot(s, root, newRoot) ==
  LET s1 == [s EXCEPT !.dom = removeListeners(@, root)]
      s2 == ElRemove(s1, root.el)
      s3 == [ElRemove(s2, newRoot.el) EXCEPT !.container = Append(@, newRoot.el)]
      s4 == appendAll(s3, newRoot)
  IN [s4 EXCEPT !.dom = addListeners(@, newRoot)]

\* parent.append(el) / el.remove() for the tree's container and a host.
HostAppend(hc, h) ==
  [x \in Hosts |-> IF x = h THEN Append(Without(hc[x], "tree"), "tree")
                   ELSE Without(hc[x], "tree")]
HostRemove(hc) == [x \in Hosts |-> Without(hc[x], "tree")]

\* A mount without the mounted test.
mountUnguarded(w, root, parent) ==
  [mounted |-> TRUE,
   hostChildren |-> HostAppend(w.hostChildren, parent),
   dom |-> addListeners(w.dom, root)]

\* A mount that appends the container and wires nothing.
mountWithoutListeners(w, root, parent) ==
  IF ~w.mounted
  THEN [mounted |-> TRUE,
        hostChildren |-> HostAppend(w.hostChildren, parent),
        dom |-> w.dom]
  ELSE w

\* An unmount that detaches the container and leaves the flag set.
unmountKeepsFlag(w, root) ==
  IF w.mounted
  THEN [mounted |-> TRUE,
        hostChildren |-> HostRemove(w.hostChildren),
        dom |-> removeListeners(w.dom, root)]
  ELSE w

\* Tree.mount(parent), on w = [mounted, hostChildren, dom].
mount(w, root, parent) ==
  IF ~w.mounted
  THEN [mounted |-> TRUE,
        hostChildren |-> HostAppend(w.hostChildren, parent),
        dom |-> addListeners(w.dom, root)]
  ELSE w

\* Tree.unmount()
unmount(w, root) ==
  IF w.mounted
  THEN [mounted |-> FALSE,
        hostChildren |-> HostRemove(w.hostChildren),
        dom |-> removeListeners(w.dom, root)]
  ELSE w

\* ------------------------------------------------------- createTree's input
\* The values createTree can be handed besides TreeData.  An array that is
\* [string, array] is the record Pair; an array of any other shape is the
\* record of type "list", whose children are its items.  An options object
\* carries its own properties as <<key, value>> pairs, in insertion order.
Undefined == [type |-> "undefined", content |-> <<>>, children |-> <<>>]
Num == [type |-> "number", content |-> <<>>, children |-> <<>>]
List(items) == [type |-> "list", content |-> <<>>, children |-> items]
Obj(props) == [type |-> "object", content |-> <<>>, children |-> <<>>, props |-> props]

\* Array.isArray(x), and the items of an array.
IsArray(x) == x.type \in {"array", "list"}
Items(x) == IF x.type = "array" THEN <<Str(x.content), List(x.children)>> ELSE x.children

\* isTreeData(x) and isTreeDataBranch(x)
RECURSIVE isTreeData(_)
RECURSIVE isTreeDataBranch(_)
isTreeData(x) == x.type = "string" \/ isTreeDataBranch(x)
isTreeDataBranch(x) ==
  /\ IsArray(x)
  /\ Len(Items(x)) = 2
  /\ Items(x)[1].type = "string"
  /\ IsArray(Items(x)[2])
  /\ \A i \in 1..Len(Items(Items(x)[2])) : isTreeData(Items(Items(x)[2])[i])

\* The TreeParams the element tree depends on: the class name of the node
\* elements.  A class name is a sequence of characters, " " among them.
defaults == [nodeClassName |-> <<"tree_node">>]

\* The own enumerable properties Object.assign copies from x: those of an
\* options object; none from undefined or a number; from an array its index
\* keys, none of which is a key of TreeParams.
OwnProps(x) == IF x.type = "object" THEN x.props ELSE <<>>

\* Object.assign({}, defaults, params)
RECURSIVE assign(_, _)
assign(target, props) ==
  IF props = <<>> THEN target
  ELSE assign(IF Head(props)[1] \in DOMAIN target
              THEN [target EXCEPT ![Head(props)[1]] = Head(props)[2]]
              ELSE target,
              Tail(props))
applyDefaults(params) == assign(defaults, OwnProps(params))

\* el.querySelector(`.${className}`) on the compiled container, every node
\* element of which has class="${className} expanded".  "." must be followed
\* by a name; characters after a space are a descendant type selector, and
\* the container holds no element of such a type; otherwise the first
\* element in document order with the class is the fragment's root.
querySelector(rootEl, className) ==
  IF className = <<>> \/ Head(className) = " "
  THEN [result |-> "SyntaxError", el |-> rootEl]
  ELSE IF \E i \in 1..Len(className) :
            className[i] = " " /\ \E j \in (i + 1)..Len(className) : className[j] # " "
       THEN [result |-> "null", el |-> rootEl]
       ELSE [result |-> "element", el |-> rootEl]

\* tree(data, params): the container holds the fragment's root element (and
\* the style sheet); every node gets its view.  createTreeNode(params, null)
\* throws a TypeError at its first el.querySelector.
tree(treeData, params) ==
  LET c == treeDataToHtml([e \in Elem |-> NoElement], treeData)
      q == querySelector(c.el, params.nodeClassName)
      v == createTreeNode(c.dom, q.el)
  IN IF q.result = "SyntaxError" THEN [result |-> "SyntaxError"]
     ELSE IF q.result = "null" THEN [result |-> "TypeError"]
     ELSE [result |-> "tree", dom |-> v.dom, container |-> <<c.el>>, root |-> v.node]

\* createTree(data, params = {})
createTree(x) ==
  IF isTreeData(x)
  THEN tree(x, applyDefaults(Obj(<<>>)))
  ELSE tree(Str(<<>>), applyDefaults(IF x.type = "undefined" THEN Obj(<<>>) ELSE x))

\* ------------------------------------------------------------------ events
MOD_KEYS == <<"altKey", "ctrlKey", "metaKey", "shiftKey">>
RECURSIVE Pow2(_)
Pow2(i) == IF i = 0 THEN 1 ELSE 2 * Pow2(i - 1)
RECURSIVE modKeysFrom(_, _)
modKeysFrom(e, i) ==
  IF i >= Len(MOD_KEYS) THEN 0
  ELSE (IF MOD_KEYS[i + 1] \in e THEN Pow2(i) ELSE 0) + modKeysFrom(e, i + 1)
\* modKeys(e), e the set of modifier flags that are set on the event
modKeys(e) == modKeysFrom(e, 0)

\* The elements a keydown event visits: its target, then each ancestor.
RECURSIVE EventPath(_, _)
EventPath(d, e) ==
  LET ps == {x \in Elem : \E i \in 1..Len(d[x].kids) : d[x].kids[i] = e}
  IN IF ps = {} THEN <<e>> ELSE <<e>> \o EventPath(d, CHOOSE x \in ps : TRUE)

\* Handlers that set collapsed and let the event go on to the ancestors.
RECURSIVE dispatchKeydownBubbling(_, _, _, _)
dispatchKeydownBubbling(d, path, mods, code) ==
  IF path = <<>> THEN d
  ELSE LET e == Head(path) IN
       IF d[e].onkeydown /\ modKeys(mods) = 2 /\ code \in {"ArrowDown", "ArrowUp"}
       THEN dispatchKeydownBubbling(setCollapsed(d, e, code = "ArrowUp"),
                                    Tail(path), mods, code)
       ELSE dispatchKeydownBubbling(d, Tail(path), mods, code)

\* The onkeydown handlers installed at index.ts:213, run along the path
\* until one stops the propagation.
RECURSIVE dispatchKeydown(_, _, _, _)
dispatchKeydown(d, path, mods, code) ==
  IF path = <<>> THEN d
  ELSE LET e == Head(path) IN
       IF d[e].onkeydown /\ modKeys(mods) = 2 /\ code \in {"ArrowDown", "ArrowUp"}
       THEN setCollapsed(d, e, code = "ArrowUp")
       ELSE dispatchKeydown(d, Tail(path), mods, code)

\* The onclick handler installed at index.ts:232.
clickBullet(d, e) == setCollapsed(d, e, ~getCollapsed(d, e))

Attached == \E h \in Hosts : Len(hostChildren[h]) > 0
InDocument(e) == Attached /\ e \in Live(dom, container)

\* ------------------------------------------------------------------ inputs
L(x) == <<x>>
\* t("root", t("a"), t("b", t("b1"))), the scenario of the specification
Scenario == t(L("root"), <<t(L("a"), <<>>), t(L("b"), <<t(L("b1"), <<>>)>>)>>)
InitData == {t(L("r"), <<>>)}
\* What the caller passes to add(): labels, a label the markup does not
\* survive, a pair without children and a pair with one child.
AddData ==
  {Str(L("x")), Str(<<"x", DQUOTE>>), Pair(L("x"), <<>>), Pair(L("x"), <<Str(L("x"))>>)}
Indices == -1..MaxIndex
Modifiers == {{}, {"ctrlKey"}, {"ctrlKey", "shiftKey"}}
Codes == {"ArrowDown", "ArrowUp", "Enter"}

\* ----------------------------------------------------------------- actions
Add(pos, childData, index, stale) ==
  LET node == ViewAt(top, pos)
      r == add(dom, node, childData, index)
      f1 == PutAt(top, pos, r.node)
      f2 == Regenerated(top, f1, pos)
      root2 == Moved(f1, pos, rootAt)
  IN /\ Cardinality(Elem \ FreeElems(dom)) + NodeCount(childData) <= MaxNodes
     /\ \E keep \in Keeps(f2, root2, stale) :
          LET n == Settle(r.dom, container, f2, root2, keep)
          IN /\ dom' = n.dom /\ container' = n.container
             /\ top' = n.top /\ rootAt' = n.rootAt /\ held' = n.held
     /\ UNCHANGED <<hostChildren, mounted, data, out>>

Remove(pos, index, stale) ==
  LET node == ViewAt(top, pos)
      r == remove(dom, node, index)
      f1 == PutAt(top, pos, r.node)
      f2 == IF r.result = "removed" THEN Regenerated(top, f1, pos) ELSE top
      root2 == IF r.result = "removed" THEN Moved(f1, pos, rootAt) ELSE rootAt
      keeps == IF r.result = "removed" THEN Keeps(f2, root2, stale) ELSE {held}
  IN /\ \E keep \in keeps :
          LET n == Settle(r.dom, container, f2, root2, keep)
          IN /\ dom' = n.dom /\ container' = n.container
             /\ top' = n.top /\ rootAt' = n.rootAt /\ held' = n.held
     /\ UNCHANGED <<hostChildren, mounted, data, out>>

SetCollapsed(pos, c) ==
  /\ dom' = setCollapsed(dom, ViewAt(top, pos).el, c)
  /\ UNCHANGED <<container, hostChildren, mounted, top, rootAt, held, data, out>>

SetRoot(pos, stale) ==
  LET s == setRoot([dom |-> dom, container |-> container],
                   ViewAt(top, rootAt), ViewAt(top, pos))
  IN /\ \E keep \in Keeps(top, pos, stale) :
          LET n == Settle(s.dom, s.container, top, pos, keep)
          IN /\ dom' = n.dom /\ container' = n.container
             /\ top' = n.top /\ rootAt' = n.rootAt /\ held' = n.held
     /\ UNCHANGED <<hostChildren, mounted, data, out>>

Mount(parent) ==
  LET w == mount([mounted |-> mounted, hostChildren |-> hostChildren, dom |-> dom],
                 ViewAt(top, rootAt), parent)
  IN /\ mounted' = w.mounted
     /\ hostChildren' = w.hostChildren
     /\ dom' = w.dom
     /\ UNCHANGED <<container, top, rootAt, held, data, out>>

Unmount ==
  LET w == unmount([mounted |-> mounted, hostChildren |-> hostChildren, dom |-> dom],
                   ViewAt(top, rootAt))
  IN /\ mounted' = w.mounted
     /\ hostChildren' = w.hostChildren
     /\ dom' = w.dom
     /\ UNCHANGED <<container, top, rootAt, held, data, out>>

\* A click on bullet b of element e, which is in the document.
Click(e, b) ==
  /\ InDocument(e)
  /\ dom[e].onclick[b]
  /\ dom' = clickBullet(dom, e)
  /\ UNCHANGED <<container, hostChildren, mounted, top, rootAt, held, data, out>>

\* A keydown event whose target is (the text input of) element e.
KeyDown(e, mods, code) ==
  /\ InDocument(e)
  /\ dom' = dispatchKeydown(dom, EventPath(dom, e), mods, code)
  /\ UNCHANGED <<container, hostChildren, mounted, top, rootAt, held, data, out>>

\* tree.root.getTreeData()
GetTreeData ==
  /\ out' = <<treeNodeToTreeData(dom, ViewAt(top, rootAt))>>
  /\ UNCHANGED <<dom, container, hostChildren, mounted, top, rootAt, held, data>>

\* ----------------------------------------------------------- specifications
InitWith(x) ==
  LET tr == createTree(x)
  IN /\ data = x
     /\ dom = tr.dom
     /\ container = tr.container
     /\ top = <<tr.root>>
     /\ rootAt = <<1>>
     /\ held = <<>>
     /\ mounted = FALSE
     /\ hostChildren = [h \in Hosts |-> <<>>]
     /\ out = <<>>

Init == \E x \in InitData : InitWith(x)

\* Every call and event, on any view the caller can reach; the caller keeps
\* references to views across calls.
Next ==
  \/ \E pos \in Positions(top), childData \in AddData, index \in Indices :
       Add(pos, childData, index, TRUE)
  \/ \E pos \in Positions(top), index \in Indices : Remove(pos, index, TRUE)
  \/ \E pos \in Positions(top), c \in BOOLEAN : SetCollapsed(pos, c)
  \/ \E pos \in Positions(top) : SetRoot(pos, TRUE)
  \/ \E parent \in Hosts : Mount(parent)
  \/ Unmount
  \/ \E e \in Elem, b \in ContentChildren : Click(e, b)
  \/ \E e \in Elem, mods \in Modifiers, code \in Codes : KeyDown(e, mods, code)

Spec == Init /\ [][Next]_vars

\* The same calls and events, by a caller that keeps no reference to a view
\* across calls: it reaches every view from tree.root at the time of the call.
NextLive ==
  \/ \E pos \in Positions(top), childData \in AddData, index \in Indices :
       Add(pos, childData, index, FALSE)
  \/ \E pos \in Positions(top), index \in Indices : Remove(pos, index, FALSE)
  \/ \E pos \in Positions(top), c \in BOOLEAN : SetCollapsed(pos, c)
  \/ \E pos \in Positions(top) : SetRoot(pos, FALSE)
  \/ \E parent \in Hosts : Mount(parent)
  \/ Unmount
  \/ \E e \in Elem, b \in ContentChildren : Click(e, b)
  \/ \E e \in Elem, mods \in Modifiers, code \in Codes : KeyDown(e, mods, code)

SpecLive == Init /\ [][NextLive]_vars

\* createTree(d) for every TreeData d of at most MaxDataNodes nodes, followed
\* by tree.root.getTreeData().
CreateLabels == {<<>>, <<"a">>, <<"a", DQUOTE>>}
RECURSIVE TreesOf(_)
RECURSIVE ForestsOf(_)
TreesOf(n) ==
  (IF n = 1 THEN {Str(c) : c \in CreateLabels} ELSE {}) \cup
  {Pair(c, cs) : c \in CreateLabels, cs \in ForestsOf(n - 1)}
ForestsOf(m) ==
  IF m = 0 THEN {<<>>}
  ELSE UNION {{<<x>> \o cs : x \in TreesOf(k), cs \in ForestsOf(m - k)} : k \in 1..m}
TreeDatas == UNION {TreesOf(n) : n \in 1..MaxDataNodes}

InitCreate == \E x \in TreeDatas : InitWith(x)
NextCreate == GetTreeData
SpecCreate == InitCreate /\ [][NextCreate]_vars

\* createTree(t(c, ...cs)) for every label c and every children sequence cs
\* of at most MaxDataNodes - 1 nodes, followed by tree.root.getTreeData().
HelperArgs == UNION {ForestsOf(m) : m \in 0..(MaxDataNodes - 1)}
InitHelper == \E c \in CreateLabels, cs \in HelperArgs : InitWith(t(c, cs))
SpecHelper == InitHelper /\ [][NextCreate]_vars

\* A caller that keeps a view and goes on through the tree's own views:
\*   tr = createTree(t("r", t("x", "x", ...), "x")); kept = tr.root.children[0]
\*   tr.root.remove(1)            (tr.root.children is regenerated)
\*   tr.root.children[0].remove(i) / .add("x") / .add("x", 0), MaxCalls times
\* and then calls setRoot with any view it can reach, kept included.
RepairCalls == {"remove0", "remove1", "add", "addFirst"}
KeptData(n) == t(L("r"), <<t(L("x"), [i \in 1..n |-> Str(L("x"))]), Str(L("x"))>>)

\* createTree(KeptData(n)), kept = tr.root.children[0], tr.root.remove(1):
\* the document, the root view with its new list, and the kept view.
RepairStart(n) ==
  LET tr == createTree(KeptData(n))
      r == remove(tr.dom, tr.root, 1)
      g == Collect(r.dom, tr.container, <<r.node, tr.root.children[1]>>)
  IN [data |-> KeptData(n), dom |-> g.dom, container |-> g.container,
      root |-> g.top[1], kept |-> g.top[2]]

\* One call through tr.root.children[0].
RepairCall(st, call) ==
  LET node == st.root.children[1]
      fits == FreeElems(st.dom) # {}
      r == CASE call = "remove0" -> remove(st.dom, node, 0)
             [] call = "remove1" -> remove(st.dom, node, 1)
             [] call = "add" /\ fits -> add(st.dom, node, Str(L("x")), -1)
             [] call = "addFirst" /\ fits -> add(st.dom, node, Str(L("x")), 0)
             [] OTHER -> [dom |-> st.dom, node |-> node]
      g == Collect(r.dom, st.container, <<PutView(st.root, <<1>>, r.node), st.kept>>)
  IN [st EXCEPT !.dom = g.dom, !.container = g.container,
                !.root = g.top[1], !.kept = g.top[2]]

\* What up to k such calls lead to.
RECURSIVE RepairStates(_)
RepairStates(k) ==
  IF k = 0 THEN {RepairStart(n) : n \in 1..MaxKept}
  ELSE UNION {{st} \cup {RepairCall(st, call) : call \in RepairCalls} :
                st \in RepairStates(k - 1)}

InitRepair ==
  \E st \in RepairStates(MaxCalls) :
     /\ data = st.data
     /\ dom = st.dom
     /\ container = st.container
     /\ top = <<st.root, st.kept>>
     /\ rootAt = <<1>>
     /\ held = <<2>>
     /\ mounted = FALSE
     /\ hostChildren = [h \in Hosts |-> <<>>]
     /\ out = <<>>
NextRepair == \E pos \in Positions(top) : SetRoot(pos, TRUE)
SpecRepair == InitRepair /\ [][NextRepair]_vars

\* createTree(x) for every value x of FirstArgs, on a page that has no tree
\* yet, followed by tree.root.getTreeData() when a tree was returned.  An
\* exception that leaves createTree is recorded in out.
ClassNames == {<<"tree_node">>, <<"a">>, <<>>, <<"a", " ", "b">>}
Options ==
  {Obj(<<>>), Obj(<< <<"indent", <<"2", "p", "x">>>> >>)} \cup
  {Obj(<< <<"nodeClassName", cn>> >>) : cn \in ClassNames}
Malformed ==
  {List(<<>>), List(<<Str(L("a"))>>), List(<<Str(L("a")), Str(L("b"))>>),
   List(<<Num, List(<<>>)>>), List(<<Str(L("a")), List(<<>>), Str(L("b"))>>),
   Pair(L("a"), <<Num>>), Pair(L("a"), <<Undefined>>),
   Pair(L("a"), <<List(<<>>)>>), Pair(L("a"), <<Obj(<<>>)>>),
   Pair(L("a"), <<Str(L("b")), Pair(L("b"), <<Num>>)>>)}
FirstArgs == TreeDatas \cup {Undefined, Num} \cup Options \cup Malformed

Threw(error) == [type |-> error, content |-> <<>>, children |-> <<>>]

InitFirstArg ==
  /\ data \in FirstArgs
  /\ dom = [e \in Elem |-> NoElement]
  /\ container = <<>>
  /\ top = <<>>
  /\ rootAt = <<1>>
  /\ held = <<>>
  /\ mounted = FALSE
  /\ hostChildren = [h \in Hosts |-> <<>>]
  /\ out = <<>>

\* tr = createTree(data)
CreateTree ==
  /\ top = <<>>
  /\ out = <<>>
  /\ LET tr == createTree(data)
     IN IF tr.result = "tree"
        THEN /\ dom' = tr.dom
             /\ container' = tr.container
             /\ top' = <<tr.root>>
             /\ out' = out
        ELSE /\ out' = <<Threw(tr.result)>>
             /\ UNCHANGED <<dom, container, top>>
  /\ UNCHANGED <<hostChildren, mounted, rootAt, held, data>>

\* tr.root.getTreeData(), once there is a tree
ReadTreeData == top # <<>> /\ GetTreeData

NextFirstArg == CreateTree \/ ReadTreeData
SpecFirstArg == InitFirstArg /\ [][NextFirstArg]_vars

\* ------------------------------------------------------------------ claims
\* What the caller can call a node operation on.
Nodes == Positions(top)
RootView == ViewAt(top, rootAt)
Used(d) == Elem \ FreeElems(d)

\* C1: createTree(d).root.getTreeData(), with no mutation in between, is
\* structurally equal to d, for every well-formed TreeData d (a pair with an
\* empty sequence included).
C1_RoundTrip == out # <<>> => out[1] = data

\* The document and the tree's lifecycle state, as the operations take them.
Doc == [dom |-> dom, container |-> container]
Lifecycle == [mounted |-> mounted, hostChildren |-> hostChildren, dom |-> dom]
\* add(childData) can be evaluated in the current heap.
Fits(childData) == NodeCount(childData) <= Cardinality(FreeElems(dom))

ChildEls(view) == [i \in 1..Len(view.children) |-> view.children[i].el]
\* The view's own list names the element children of its container.
InSync(d, view) == ChildEls(view) = d[view.el].kids
\* So does the list of every view below it.
RECURSIVE Mirrors(_, _)
Mirrors(d, view) ==
  /\ InSync(d, view)
  /\ \A i \in 1..Len(view.children) : Mirrors(d, view.children[i])

\* The serialization of the element tree at e: a leaf gives its label, any
\* other element the pair of its label and its children in document order.
RECURSIVE Serialize(_, _)
Serialize(d, e) ==
  IF Len(d[e].kids) = 0 THEN Str(d[e].content)
  ELSE Pair(d[e].content, [i \in 1..Len(d[e].kids) |-> Serialize(d, d[e].kids[i])])

NoHandlers(d, e) ==
  ~d[e].onkeydown /\ ~d[e].onclick[COLLAPSED_BULLET] /\ ~d[e].onclick[EXPANDED_BULLET]
ToggleHandlers(d, e) ==
  d[e].onkeydown /\ d[e].onclick[COLLAPSED_BULLET] /\ d[e].onclick[EXPANDED_BULLET]

\* C2: add(data, p) on a node with children c of length n gives the children
\* c[0..p-1] ++ [new] ++ c[p..n-1] when 0 <= p < n and c ++ [new] when p is
\* -1 (the default) or p >= n; the old children keep their order and the new
\* child's subtree serializes to data.
C2_AddPosition ==
  \A pos \in Nodes, childData \in AddData, p \in Indices :
    Fits(childData) =>
      LET node == ViewAt(top, pos)
          c == dom[node.el].kids
          n == Len(c)
          r == add(dom, node, childData, p)
          c2 == r.dom[node.el].kids
          k == IF 0 <= p /\ p < n THEN p + 1 ELSE n + 1
      IN /\ Len(c2) = n + 1
         /\ c2[k] \notin Used(dom)
         /\ RemoveAt(c2, k) = c
         /\ ChildEls(r.node) = c2
         /\ treeNodeToTreeData(r.dom, r.node.children[k]) = childData

\* What root.remove(0) leaves of the scenario tree.
C3_ScenarioLeft == t(L("root"), <<t(L("b"), <<t(L("b1"), <<>>)>>)>>)

\* C3: remove(i) with 0 <= i < n removes exactly the child at position i,
\* with its whole subtree, and leaves the other children and their subtrees
\* as they were, in order; a view whose list named the n children names the
\* n - 1 that are left.  On t("root", t("a"), t("b", t("b1"))), root.remove(0)
\* leaves root with the one child "b", which still has the child "b1".
C3_RemoveValid ==
  /\ \A pos \in Nodes, i \in Indices :
       LET node == ViewAt(top, pos)
           el == node.el
           c == dom[el].kids
           r == remove(dom, node, i)
       IN (0 <= i /\ i < Len(c)) =>
            /\ r.dom[el].kids = RemoveAt(c, i + 1)
            /\ Subtree(dom, c[i + 1]) \cap Subtree(r.dom, el) = {}
            /\ \A e \in Elem \ {el} : r.dom[e].kids = dom[e].kids
            /\ \A e \in Elem : r.dom[e].content = dom[e].content
                                 /\ r.dom[e].used = dom[e].used
            /\ InSync(dom, node) =>
                 /\ r.result = "removed"
                 /\ Mirrors(r.dom, r.node)
  /\ LET tr == tree(Scenario, defaults)
         r == remove(tr.dom, tr.root, 0)
     IN /\ treeNodeToTreeData(tr.dom, tr.root) = Scenario
        /\ r.result = "removed"
        /\ treeNodeToTreeData(r.dom, r.node) = C3_ScenarioLeft
        /\ Serialize(r.dom, tr.root.el) = C3_ScenarioLeft
\* A node with two children, of which remove(0) leaves the second.
C3_Witness ==
  \E pos \in Nodes :
    LET node == ViewAt(top, pos)
        r == remove(dom, node, 0)
    IN /\ Len(dom[node.el].kids) = 2
       /\ InSync(dom, node)
       /\ r.result = "removed"
       /\ r.dom[node.el].kids = <<dom[node.el].kids[2]>>

\* C4: remove(i) with i < 0 or i >= childCount returns normally and changes
\* nothing: not the children list, the element tree, any node's content or
\* collapsed state, or any handler.
C4_RemoveOutOfRange ==
  \A pos \in Nodes, i \in Indices \cup {MaxIndex + 1} :
    LET node == ViewAt(top, pos)
        r == remove(dom, node, i)
    IN (i < 0 \/ i >= Len(dom[node.el].kids)) =>
         /\ r.result = "ignored"
         /\ r.dom = dom
         /\ r.node = node
\* A node with children, and remove(n) on it.
C4_Witness ==
  \E pos \in Nodes :
    LET node == ViewAt(top, pos)
        n == Len(dom[node.el].kids)
    IN n > 0 /\ remove(dom, node, n).result = "ignored"
             /\ remove(dom, node, -1).result = "ignored"

\* C5: immediately after unmount() on a mounted tree, no node of the root
\* subtree has a click handler on either toggle bullet or a keydown handler.
C5_UnmountClears ==
  mounted =>
    LET w == unmount(Lifecycle, RootView)
    IN \A e \in ViewEls(RootView) \cup Subtree(w.dom, RootView.el) :
         NoHandlers(w.dom, e)

\* C6: after any add, remove or setRoot, no node detached from the tree (a
\* removed child, a replaced root, their descendants) has a click or keydown
\* handler, and exactly the nodes of the live subtree are wired: in a
\* mounted tree a live node has its handlers iff it has children.
C6_OnlyLiveWired ==
  /\ \A e \in Used(dom) \ Live(dom, container) : NoHandlers(dom, e)
  /\ mounted =>
       \A e \in Live(dom, container) :
         IF Len(dom[e].kids) > 0 THEN ToggleHandlers(dom, e) ELSE NoHandlers(dom, e)

\* The container holds the root's element, every view the root reaches lists
\* the element children of its container, and getTreeData() is the
\* serialization of the element tree.
ConsistentOf(d, c, root) ==
  /\ c = <<root.el>>
  /\ Mirrors(d, root)
  /\ treeNodeToTreeData(d, root) = Serialize(d, c[1])

\* C7 (as claimed): after every add/remove/setRoot call, through whichever
\* view the caller holds, every view reachable from tree.root lists exactly
\* the element children of its container, in order, so that
\* tree.root.getTreeData() is the serialization of the live element tree.
C7_AlwaysConsistent == ConsistentOf(dom, container, RootView)

\* C7 (amended): the views and the element tree are consistent after
\* construction, and every add/remove/setRoot call made through a view that
\* tree.root reaches at the time of the call keeps them consistent.
C7_LiveCallsKeepConsistent ==
  /\ \A x \in InitData :
       LET tr == createTree(x) IN ConsistentOf(tr.dom, tr.container, tr.root)
  /\ ConsistentOf(dom, container, RootView) =>
       \A pos \in {x \in Nodes : IsPrefix(rootAt, x)} :
         LET node == ViewAt(top, pos)
             path == Below(rootAt, pos)
         IN /\ \A childData \in AddData, p \in Indices :
                 Fits(childData) =>
                   LET r == add(dom, node, childData, p)
                   IN ConsistentOf(r.dom, container, PutView(RootView, path, r.node))
            /\ \A i \in Indices :
                 LET r == remove(dom, node, i)
                 IN /\ r.result # "threw"
                    /\ ConsistentOf(r.dom, container, PutView(RootView, path, r.node))
            /\ LET s == setRoot(Doc, RootView, node)
               IN ConsistentOf(s.dom, s.container, node)
\* A consistent tree of three nodes while the caller holds a stale view.
C7_Witness ==
  /\ ConsistentOf(dom, container, RootView)
  /\ Cardinality(ViewEls(RootView)) = MaxNodes
  /\ held # <<>>

\* Where the container element is: the hosts that have it among their
\* children, once for each time they have it.
Appearances(hc) ==
  {<<h, i>> \in Hosts \X (1..2) : i <= Len(hc[h]) /\ hc[h][i] = "tree"}

\* C8: once a tree is mounted, any further mount call, with the same host or
\* with another, changes nothing before an unmount, and the container element
\* is a child of exactly one host, exactly once.
C8_MountIdempotent ==
  /\ mounted =>
       /\ Cardinality(Appearances(hostChildren)) = 1
       /\ \A parent \in Hosts : mount(Lifecycle, RootView, parent) = Lifecycle
  /\ ~mounted =>
       \A p \in Hosts, q \in Hosts :
         LET w == mount(Lifecycle, RootView, p)
         IN /\ w.mounted
            /\ Appearances(w.hostChildren) = {<<p, 1>>}
            /\ mount(w, RootView, q) = w
\* A mounted tree with toggle handlers on its root, and another host to
\* call mount with.
C8_Witness ==
  /\ mounted
  /\ ToggleHandlers(dom, RootView.el)
  /\ \E parent \in Hosts :
       /\ hostChildren[parent] = <<>>
       /\ mount(Lifecycle, RootView, parent) = Lifecycle

\* C9: unmount followed by mount re-attaches the same tree: the container is
\* in the host again, tree.root.getTreeData() and every node's collapsed
\* state are what they were before the unmount, and every node with children
\* has its toggle handlers.
C9_Remount ==
  mounted =>
    \A parent \in Hosts :
      LET w == mount(unmount(Lifecycle, RootView), RootView, parent)
      IN /\ w.mounted
         /\ Appearances(w.hostChildren) = {<<parent, 1>>}
         /\ treeNodeToTreeData(w.dom, RootView) = treeNodeToTreeData(dom, RootView)
         /\ \A e \in Elem : /\ getCollapsed(w.dom, e) = getCollapsed(dom, e)
                            /\ w.dom[e].kids = dom[e].kids
                            /\ w.dom[e].content = dom[e].content
         /\ \A pos \in {x \in Nodes : IsPrefix(rootAt, x)} :
              LET node == ViewAt(top, pos)
              IN Len(node.children) > 0 => ToggleHandlers(w.dom, node.el)
\* A mounted tree whose root has children, one of them collapsed; after
\* unmount the container is in no host, after mount it is in the host again.
C9_Witness ==
  /\ mounted
  /\ Len(RootView.children) > 0
  /\ \E e \in ViewEls(RootView) : getCollapsed(dom, e)
  /\ Appearances(unmount(Lifecycle, RootView).hostChildren) = {}
  /\ mount(unmount(Lifecycle, RootView), RootView, "host2").hostChildren["host2"]
       = <<"tree">>

\* C10: setting collapsed removes nothing from the element tree, and
\* toggling collapsed twice on a node (true then false, false then true, or
\* two clicks on a bullet) restores the node's collapsed value, its children
\* list and getTreeData() of the whole tree.
C10_ToggleTwice ==
  \A pos \in Nodes :
    LET node == ViewAt(top, pos)
        el == node.el
        c0 == getCollapsed(dom, el)
    IN /\ \A c \in BOOLEAN :
            LET d1 == setCollapsed(dom, el, c)
            IN /\ getCollapsed(d1, el) = c
               /\ \A e \in Elem : /\ d1[e].kids = dom[e].kids
                                  /\ d1[e].used = dom[e].used
                                  /\ d1[e].content = dom[e].content
               /\ treeNodeToTreeData(d1, RootView) = treeNodeToTreeData(dom, RootView)
       /\ LET d2 == setCollapsed(setCollapsed(dom, el, ~c0), el, c0)
          IN /\ getCollapsed(d2, el) = c0
             /\ d2 = dom
       /\ \A c \in BOOLEAN :
            LET d1 == setCollapsed(dom, el, c)
                d3 == setCollapsed(setCollapsed(d1, el, ~c), el, c)
            IN d3 = d1
       /\ clickBullet(clickBullet(dom, el), el) = dom
\* A collapsed node with children, which the first toggle expands.
C10_Witness ==
  \E pos \in Nodes :
    LET node == ViewAt(top, pos)
    IN /\ Len(dom[node.el].kids) > 0
       /\ getCollapsed(dom, node.el)
       /\ ~getCollapsed(setCollapsed(dom, node.el, FALSE), node.el)
       /\ getCollapsed(clickBullet(clickBullet(dom, node.el), node.el), node.el)

\* C11: t(label, ...children) is the bare label when it is called with no
\* children and the pair [label, children], children in argument order,
\* otherwise; it never gives a pair whose own children sequence is empty.
C11_Helper ==
  /\ data.type = "array" => Len(data.children) > 0
  /\ \A c \in CreateLabels, cs \in HelperArgs :
       LET r == t(c, cs)
       IN /\ r.content = c
          /\ r.children = cs
          /\ r.type = IF Len(cs) = 0 THEN "string" ELSE "array"
          /\ r = IF Len(cs) = 0 THEN Str(c) ELSE Pair(c, cs)
\* The tree of a pair of two children that t made, its data read back, and
\* the label that t gives without children.
C11_Witness ==
  /\ data.type = "array"
  /\ Len(data.children) = 2
  /\ data = t(data.content, data.children)
  /\ t(data.content, <<>>) = Str(data.content)
  /\ out # <<>>

\* The elements of a sequence.
Range(s) == {s[i] : i \in 1..Len(s)}
\* The state setRoot(n) leaves, n the view at pos, when the caller keeps no
\* other reference.
AfterSetRoot(pos) ==
  LET s == setRoot(Doc, RootView, ViewAt(top, pos))
  IN Settle(s.dom, s.container, top, pos, <<>>)

\* C12 (as claimed): after setRoot(n), tree.root is n, the previous root's
\* element is no longer a child of the container, and the container holds
\* exactly one node element, n's; also when n is the current root or one of
\* its descendants.
C12_SetRoot ==
  \A pos \in Nodes :
    LET n == ViewAt(top, pos)
        s == setRoot(Doc, RootView, n)
        st == AfterSetRoot(pos)
    IN /\ s.container = <<n.el>>
       /\ RootView.el \notin Range(s.container)
       /\ ViewAt(st.top, st.rootAt).el = st.container[1]

\* C12 (amended): after setRoot(n), tree.root is n and the container holds
\* exactly one node element, n's; the previous root's element is no longer a
\* child of the container unless it is n's element (n is the current root,
\* or another view of the root's element).
C12_SetRootOther ==
  \A pos \in Nodes :
    LET n == ViewAt(top, pos)
        s == setRoot(Doc, RootView, n)
        st == AfterSetRoot(pos)
    IN /\ s.container = <<n.el>>
       /\ n.el # RootView.el => RootView.el \notin Range(s.container)
       /\ n.el = RootView.el => s.container = container
       /\ ViewAt(st.top, st.rootAt).el = st.container[1]
       /\ Len(ViewAt(st.top, st.rootAt).children) = Len(n.children)
\* A root with a descendant to make the root of, which takes the root's place
\* in the container.
C12_Witness ==
  \E pos \in Nodes :
    LET n == ViewAt(top, pos)
        s == setRoot(Doc, RootView, n)
    IN /\ IsPrefix(rootAt, pos) /\ pos # rootAt
       /\ n.el \in Subtree(dom, RootView.el) \ {RootView.el}
       /\ container = <<RootView.el>>
       /\ s.container = <<n.el>>
       /\ n.el \notin Range(s.dom[RootView.el].kids)

\* C13: setRoot(n) repairs the new root's subtree: at every node whose
\* children container holds fewer element children than the view's list
\* names, the container is cleared and the view's children are appended, so
\* that the container's element children are exactly the view's children, in
\* view order; a container with at least as many element children as the
\* list is left as it is.
C13_Repair ==
  \A pos \in Nodes :
    LET n == ViewAt(top, pos)
        s == appendAll(Doc, n)
    IN \A path \in Paths(n) :
         LET v == SubView(n, path)
             before == dom[v.el].kids
             after == s.dom[v.el].kids
         IN IF Len(before) < Len(v.children)
            THEN after = ChildEls(v)
            ELSE after = before

\* Every node element under the container has its toggle handlers if it has
\* an element child, and no toggle handler if it has none.
WiredIffChild(d, c) ==
  \A e \in Live(d, c) :
    IF Len(d[e].kids) > 0 THEN ToggleHandlers(d, e) ELSE NoHandlers(d, e)

\* C14: in a mounted tree, after any sequence of add and remove calls made
\* through views that tree.root reaches, a node has a click handler on its
\* toggle bullets and a keydown handler iff it has at least one child; a node
\* that becomes a leaf by a removal keeps no toggle handler and a leaf that
\* gains a child gets them.
C14_HandlersIffChild ==
  mounted =>
    /\ WiredIffChild(dom, container)
    /\ \A pos \in {x \in Nodes : IsPrefix(rootAt, x)} :
         LET node == ViewAt(top, pos)
         IN /\ \A childData \in AddData, p \in Indices :
                 Fits(childData) =>
                   LET r == add(dom, node, childData, p)
                   IN /\ WiredIffChild(r.dom, container)
                      /\ ToggleHandlers(r.dom, node.el)
            /\ \A i \in Indices :
                 LET r == remove(dom, node, i)
                 IN /\ WiredIffChild(r.dom, container)
                    /\ Len(r.dom[node.el].kids) = 0 => NoHandlers(r.dom, node.el)
\* A mounted tree with a node that has its handlers and one child, which
\* remove(0) makes a leaf without handlers, and a leaf without handlers,
\* which add makes a node with them.
C14_Witness ==
  /\ mounted
  /\ \E pos \in Nodes :
       LET node == ViewAt(top, pos)
       IN /\ Len(dom[node.el].kids) = 1
          /\ ToggleHandlers(dom, node.el)
          /\ NoHandlers(remove(dom, node, 0).dom, node.el)
  /\ \E pos \in Nodes :
       LET node == ViewAt(top, pos)
       IN /\ Len(dom[node.el].kids) = 0
          /\ NoHandlers(dom, node.el)
          /\ Fits(Str(L("x")))
          /\ ToggleHandlers(add(dom, node, Str(L("x")), -1).dom, node.el)

\* Every combination of the four modifier keys, and the keys tried.
AllModifiers == SUBSET {MOD_KEYS[i] : i \in 1..Len(MOD_KEYS)}
AllCodes == Codes \cup {"ArrowLeft", "KeyA"}
\* The places on the path of an event, target first, of the elements that
\* have an element child.
NonLeafOn(d, path) == {i \in 1..Len(path) : Len(d[path[i]].kids) > 0}

\* What the claim says of a keydown at e: Ctrl alone with ArrowDown
\* (ArrowUp) sets collapsed = false (true) on the nearest ancestor-or-self of
\* e that has a child, and on no other node; any other modifiers or key
\* change nothing.
KeyToggles(e) ==
  \A mods \in AllModifiers, code \in AllCodes :
    LET path == EventPath(dom, e)
        d2 == dispatchKeydown(dom, path, mods, code)
        nl == NonLeafOn(dom, path)
    IN IF mods = {"ctrlKey"} /\ code \in {"ArrowDown", "ArrowUp"} /\ nl # {}
       THEN LET at == path[MinOf(nl)]
            IN /\ getCollapsed(d2, at) = (code = "ArrowUp")
               /\ d2 = setCollapsed(dom, at, code = "ArrowUp")
               /\ \A x \in Elem \ {at} : d2[x] = dom[x]
       ELSE d2 = dom

\* C15 (as claimed): a keydown with exactly Ctrl set and key ArrowDown
\* (ArrowUp) dispatched at a node sets collapsed = false (true) on the
\* nearest ancestor-or-self of the target that has a child and stops there,
\* so that no other node's collapsed state changes; a keydown with any other
\* modifiers or any other key changes no node's collapsed state.
C15_AnyTree == \A e \in Live(dom, container) : KeyToggles(e)

\* C15 (amended): the same, of a keydown dispatched at a node of a mounted
\* tree that was changed only through views tree.root reaches.
C15_KeyboardToggle ==
  mounted => \A e \in Live(dom, container) : KeyToggles(e)
\* A mounted tree of a root, its child and its grandchild, all expanded:
\* Ctrl+ArrowUp at the grandchild collapses the child and not the root.
C15_Witness ==
  /\ mounted
  /\ \E e \in Live(dom, container) :
       LET path == EventPath(dom, e)
           d2 == dispatchKeydown(dom, path, {"ctrlKey"}, "ArrowUp")
       IN /\ Len(path) = 3
          /\ Len(dom[e].kids) = 0
          /\ ~getCollapsed(dom, path[2]) /\ ~getCollapsed(dom, path[3])
          /\ getCollapsed(d2, path[2]) /\ ~getCollapsed(d2, path[3])

\* C16: after construction and after every add/remove/setRoot call, the
\* expanded bullet of each node of the tree carries the leaf mark iff the
\* node's children container has no element child.
C16_LeafMark ==
  \A e \in Live(dom, container) : dom[e].leaf <=> (Len(dom[e].kids) = 0)

\* C17: every public operation returns normally in every state that
\* sequences of the operations reach, calls through a view obtained before
\* its parent's children list was regenerated included.  Of the operations,
\* remove is the one with a path that ends in an exception.
C17_ReturnsNormally ==
  \A pos \in Nodes, i \in Indices \cup {MaxIndex + 1} :
    remove(dom, ViewAt(top, pos), i).result \in {"ignored", "removed"}

\* C18: createTree never reports an error for its first argument: a valid
\* TreeData is used as the tree data, and for any other value (undefined, an
\* options object, a malformed array) the tree is a single leaf root with the
\* empty label, so that root.getTreeData() is "".
C18_FirstArgument ==
  /\ \A i \in DOMAIN out : out[i].type \in {"string", "array"}
  /\ top # <<>> =>
       IF isTreeData(data)
       THEN LET tr == tree(data, defaults)
            IN dom = tr.dom /\ container = tr.container /\ RootView = tr.root
       ELSE /\ treeNodeToTreeData(dom, RootView) = Str(<<>>)
            /\ Len(dom[RootView.el].kids) = 0
            /\ Live(dom, container) = {RootView.el}


\* The two collapse markers, and an element that carries exactly one of them
\* on the node element and the same one on its children container.
Markers == {"collapsed", "expanded"}
OneMarker(d, e) ==
  /\ Cardinality(d[e].elClass \cap Markers) = 1
  /\ Cardinality(d[e].chClass \cap Markers) = 1
  /\ d[e].elClass \cap Markers = d[e].chClass \cap Markers

SameNode(d1, d2, e) ==
  /\ d2[e].content = d1[e].content
  /\ d2[e].elClass = d1[e].elClass
  /\ d2[e].chClass = d1[e].chClass
  /\ getCollapsed(d2, e) = getCollapsed(d1, e)

\* C20: add and remove on a node change neither the content nor the
\* collapsed state of any node that existed before the call (the node itself
\* included: a collapsed node stays collapsed when it gains a child or loses
\* its last one); a set of a node's collapsed attribute, and a click on its
\* toggle bullet, change the collapsed state of that node only and no content.
C20_Frame ==
  /\ \A pos \in Nodes, childData \in AddData, p \in Indices :
       Fits(childData) =>
         LET r == add(dom, ViewAt(top, pos), childData, p)
         IN \A e \in Used(dom) : SameNode(dom, r.dom, e)
  /\ \A pos \in Nodes, i \in Indices :
       LET r == remove(dom, ViewAt(top, pos), i)
       IN \A e \in Used(dom) : SameNode(dom, r.dom, e)
  /\ \A pos \in Nodes, c \in BOOLEAN :
       LET el == ViewAt(top, pos).el
           d1 == setCollapsed(dom, el, c)
       IN /\ \A e \in Used(dom) \ {el} : SameNode(dom, d1, e)
          /\ d1[el].content = dom[el].content
          /\ getCollapsed(d1, el) = c
  /\ \A e \in Elem, b \in ContentChildren :
       (InDocument(e) /\ dom[e].onclick[b]) =>
         LET d1 == clickBullet(dom, e)
         IN /\ \A o \in Used(dom) \ {e} : SameNode(dom, d1, o)
            /\ d1[e].content = dom[e].content
            /\ getCollapsed(d1, e) = ~getCollapsed(dom, e)
\* A collapsed node of the tree with one child, itself under an expanded
\* parent: it loses its last child, and it gains a second one.
C20_Witness ==
  \E pos \in Nodes :
    LET node == ViewAt(top, pos)
        el == node.el
    IN /\ el \in Live(dom, container)
       /\ el # RootView.el
       /\ ~getCollapsed(dom, RootView.el)
       /\ getCollapsed(dom, el)
       /\ Len(dom[el].kids) = 1
       /\ remove(dom, node, 0).result = "removed"
       /\ getCollapsed(remove(dom, node, 0).dom, el)
       /\ Len(remove(dom, node, 0).dom[el].kids) = 0
       /\ Fits(Str(L("x")))
       /\ getCollapsed(add(dom, node, Str(L("x")), 0).dom, el)
       /\ Len(add(dom, node, Str(L("x")), 0).dom[el].kids) = 2


\* C21: in every reachable state in which the tree is not mounted (freshly
\* constructed or after unmount, add, remove and setRoot calls made while
\* unmounted included), no node of the root subtree has a click handler on a
\* toggle bullet or a keydown handler.
C21_WiredOnlyMounted ==
  ~mounted =>
    \A e \in ViewEls(RootView) \cup Subtree(dom, RootView.el) : NoHandlers(dom, e)


====
